---- MODULE Spec2Model ----
(***************************************************************************)
(* A model of the hdwallet library: GenerateMnemonic, DeriveKeyFromPath,   *)
(* GenerateKeysFromMnemonic, GenerateTronAddress and the example program.  *)
(*                                                                         *)
(* 32-bit indices are kept exact as a pair (hi, lo): hi is bit 31, lo the  *)
(* low 31 bits, so that 0x80000000 and the wrap of a uint32 addition are   *)
(* representable.  Key material (32-byte strings read as big-endian        *)
(* integers) lives in a scaled-down range 0..ScalarLimit-1 with a curve    *)
(* order just below it; digests are small deterministic mixing functions.  *)
(* Address bytes keep their real lengths (65, 64, 32, 21, 25 bytes).       *)
(***************************************************************************)
EXTENDS Integers, Sequences, FiniteSets

VARIABLES caller, gm, input, run

vars == <<caller, gm, input, run>>

----------------------------------------------------------------------------
(* Bounds of the model *)

ScalarLimit == 16
MaxBitUnits == 18
MaxEntropy == 1
MaxAccount == 1
MaxChain == 1
MaxAddress == 1
DeepRange == 7

----------------------------------------------------------------------------
(* Optional values (Go's nil pointers) and errors *)

Nil == <<>>

Some(v) == <<v>>

NoErr == "nil"

----------------------------------------------------------------------------
(* uint32 arithmetic on (hi, lo) pairs *)

MaxLow == 2147483647

U32(h, l) == [hi |-> h, lo |-> l]

HardenedOffset == U32(1, 0)

Purpose == U32(0, 44)

Tron == 159

\* uint32 addition, wrapping modulo 2^32
Add32(a, b) ==
  LET carry == a.lo > MaxLow - b.lo
      lo == IF carry THEN a.lo - (MaxLow - b.lo) - 1 ELSE a.lo + b.lo
      hi == (a.hi + b.hi + (IF carry THEN 1 ELSE 0)) % 2
  IN U32(hi, lo)

\* bitwise or with 2^31
Or31(a) == U32(1, a.lo)

IsHardened(a) == a.hi = 1

----------------------------------------------------------------------------
(* The external primitives, scaled down *)

Scalars == 0 .. (ScalarLimit - 1)

CurveOrder == ScalarLimit - 3

Generator == 5

RECURSIVE Mix(_, _)
Mix(s, acc) ==
  IF s = <<>> THEN acc
  ELSE Mix(Tail(s), (acc * 33 + (Head(s) % 1009) + 1) % 1009)

\* HMAC-SHA-512: the left and right 32-byte halves of the digest
Hmac512(key, data) ==
  [IL |-> Mix(<<1, key>> \o data, 7) % ScalarLimit,
   IR |-> Mix(<<2, key>> \o data, 11) % ScalarLimit]

\* d * G in a cyclic group of order CurveOrder
ScalarBaseMult(d) == (d * Generator) % CurveOrder

----------------------------------------------------------------------------
(* go-bip39: entropy, phrases and seeds.  A phrase is abstracted to its    *)
(* word count, the entropy it encodes, its checksum bits and whether every *)
(* word is in the dictionary.                                              *)

EntropySizes == {128, 160, 192, 224, 256}

WordCounts == {12, 15, 18, 21, 24}

EmptyString == [words |-> 0, ent |-> 0, cs |-> 0, known |-> TRUE]

\* the entropy bits a phrase of that many words carries
EntBits(words) == (words * 32) \div 3

\* leading bits of SHA-256(entropy)
Checksum(bits, ent) == Mix(<<3, bits, ent>>, 13) % 16

ValidEntropyBitSize(bitSize) ==
  bitSize % 32 = 0 /\ bitSize >= 128 /\ bitSize <= 256

\* bip39.NewEntropy: size check, then one draw from the randomness source;
\* drawn is Nil when the source fails
NewEntropy(bitSize, drawn) ==
  IF ~ValidEntropyBitSize(bitSize)
    THEN [entropy |-> Nil, err |-> "InvalidEntropySize", draws |-> 0]
  ELSE IF drawn = Nil
    THEN [entropy |-> Nil, err |-> "EntropySourceError", draws |-> 1]
  ELSE [entropy |-> Some([bits |-> bitSize, val |-> drawn[1]]),
        err |-> NoErr, draws |-> 1]

\* bip39.NewMnemonic: entropy || checksum split into 11-bit words
NewMnemonic(entropy) ==
  IF ~ValidEntropyBitSize(entropy.bits)
    THEN [mnemonic |-> EmptyString, err |-> "InvalidEntropySize"]
  ELSE [mnemonic |-> [words |-> (entropy.bits + entropy.bits \div 32) \div 11,
                      ent |-> entropy.val,
                      cs |-> Checksum(entropy.bits, entropy.val),
                      known |-> TRUE],
        err |-> NoErr]

\* bip39.IsMnemonicValid
IsMnemonicValid(m) ==
  /\ m.known
  /\ m.words \in WordCounts
  /\ m.cs = Checksum(EntBits(m.words), m.ent)

\* bip39.NewSeed: PBKDF2-HMAC-SHA512 over the phrase, salt "mnemonic" || passphrase
NewSeed(m, passphrase) ==
  Mix(<<4, m.words, m.ent, m.cs, IF m.known THEN 1 ELSE 0>> \o passphrase, 17)

----------------------------------------------------------------------------
(* go-bip32: extended keys *)

ValidPrivateKey(k) == k # 0 /\ k < CurveOrder

\* bip32.NewMasterKey
NewMasterKey(seed) ==
  LET I == Hmac512(0, <<seed>>)
  IN IF ~ValidPrivateKey(I.IL)
       THEN [key |-> Nil, err |-> "InvalidMasterKey"]
       ELSE [key |-> Some([Key |-> I.IL, ChainCode |-> I.IR, Depth |-> 0,
                           ChildNumber |-> U32(0, 0)]),
             err |-> NoErr]

\* (*Key).NewChildKey for a private parent
NewChildKey(parent, childIdx) ==
  LET data == IF IsHardened(childIdx)
                THEN <<0, parent.Key, childIdx.hi, childIdx.lo>>
                ELSE <<5, ScalarBaseMult(parent.Key), childIdx.hi, childIdx.lo>>
      I == Hmac512(parent.ChainCode, data)
      childPrivate == (I.IL + parent.Key) % CurveOrder
  IN IF parent.Depth = 255
       THEN [key |-> Nil, err |-> "MaxDepthExceeded"]
     ELSE IF I.IL >= CurveOrder \/ childPrivate = 0
       THEN [key |-> Nil, err |-> "InvalidChildKey"]
     ELSE [key |-> Some([Key |-> childPrivate, ChainCode |-> I.IR,
                         Depth |-> parent.Depth + 1,
                         ChildNumber |-> childIdx]),
           err |-> NoErr]

----------------------------------------------------------------------------
(* secp256k1: key pairs *)

\* secp256k1.PrivKeyFromBytes: the bytes reduced modulo the order, no error
PrivKeyFromBytes(keyBytes) == [d |-> keyBytes % CurveOrder]

\* (*PrivateKey).PubKey
PubKey(priv) == [point |-> ScalarBaseMult(priv.d)]

\* the 32 bytes of one coordinate of a point
Coordinate(point, which) ==
  [i \in 1..32 |-> (point * 37 + which * 101 + i * 13 + 5) % 256]

\* (*PublicKey).SerializeUncompressed: 0x04 || X || Y
SerializeUncompressed(pub) ==
  <<4>> \o Coordinate(pub.point, 1) \o Coordinate(pub.point, 2)

----------------------------------------------------------------------------
(* Byte digests and Base58 *)

\* a mix of bytes[lo..hi], combined by halves
RECURSIVE ByteFold(_, _, _, _)
ByteFold(bytes, lo, hi, iv) ==
  IF lo > hi THEN iv
  ELSE IF lo = hi THEN (iv * 31 + bytes[lo] * (lo + 6) + 1) % 65521
  ELSE LET mid == (lo + hi) \div 2
       IN (ByteFold(bytes, lo, mid, iv) * 31
             + ByteFold(bytes, mid + 1, hi, iv) + 1) % 65521

\* a 32-byte digest of a byte string
Digest32(bytes, iv) ==
  LET h == ByteFold(bytes, 1, Len(bytes), iv)
  IN [i \in 1..32 |-> ((h + i) * (2 * i + 1) + iv) % 256]

\* sha3.NewLegacyKeccak256
Keccak256(bytes) == Digest32(bytes, 3)

\* sha256.Sum256
Sha256(bytes) == Digest32(bytes, 2)

Alphabet ==
  <<"1", "2", "3", "4", "5", "6", "7", "8", "9", "A", "B", "C", "D", "E", "F",
    "G", "H", "J", "K", "L", "M", "N", "P", "Q", "R", "S", "T", "U", "V", "W",
    "X", "Y", "Z", "a", "b", "c", "d", "e", "f", "g", "h", "i", "j", "k", "m",
    "n", "o", "p", "q", "r", "s", "t", "u", "v", "w", "x", "y", "z">>

\* one long division of a big-endian base-256 number by 58
RECURSIVE DivMod58(_, _, _)
DivMod58(digits, quot, rem) ==
  IF digits = <<>> THEN [q |-> quot, r |-> rem]
  ELSE LET cur == rem * 256 + Head(digits)
       IN DivMod58(Tail(digits), Append(quot, cur \div 58), cur % 58)

RECURSIVE StripZeros(_)
StripZeros(digits) ==
  IF digits # <<>> /\ Head(digits) = 0 THEN StripZeros(Tail(digits)) ELSE digits

RECURSIVE LeadingZeros(_)
LeadingZeros(bytes) ==
  IF bytes # <<>> /\ Head(bytes) = 0 THEN 1 + LeadingZeros(Tail(bytes)) ELSE 0

\* the base-58 digits of a number, most significant first
RECURSIVE ToBase58(_, _)
ToBase58(digits, out) ==
  IF digits = <<>> THEN out
  ELSE LET dm == DivMod58(digits, <<>>, 0)
       IN ToBase58(StripZeros(dm.q), <<Alphabet[dm.r + 1]>> \o out)

\* base58.Encode: one "1" per leading zero byte, then the digits
Base58Encode(bytes) ==
  [i \in 1..LeadingZeros(bytes) |-> "1"] \o ToBase58(StripZeros(bytes), <<>>)

----------------------------------------------------------------------------
(* Inputs *)

Runs == {1, 2}

BitSizes == {16 * k : k \in 0 .. MaxBitUnits}

Draws == {Nil} \cup {Some(e) : e \in 0 .. MaxEntropy}

ValidPhrase(w, e) ==
  [words |-> w, ent |-> e, cs |-> Checksum(EntBits(w), e), known |-> TRUE]

\* phrases a caller may pass: well-formed ones, one with a word outside the
\* dictionary, one with a wrong checksum, one with a wrong word count
Phrases ==
  {ValidPhrase(w, e) : w \in WordCounts, e \in 0 .. MaxEntropy}
    \cup {[ValidPhrase(12, e) EXCEPT !.known = FALSE] : e \in 0 .. MaxEntropy}
    \cup {[ValidPhrase(12, e) EXCEPT !.cs = (@ + 1) % 16] : e \in 0 .. MaxEntropy}
    \cup {[ValidPhrase(12, e) EXCEPT !.words = 11] : e \in 0 .. MaxEntropy}

CoinTypes == {U32(h, l) : h \in 0 .. 1, l \in {0, 195}}

Accounts == {U32(h, l) : h \in 0 .. 1, l \in 0 .. MaxAccount}

Chains == {U32(h, l) : h \in 0 .. 1, l \in 0 .. MaxChain}

Addresses == {U32(h, l) : h \in 0 .. 1, l \in 0 .. MaxAddress}

NoInput ==
  [mnemonic |-> EmptyString, coin |-> U32(0, 0), account |-> U32(0, 0),
   chain |-> U32(0, 0), address |-> U32(0, 0)]

----------------------------------------------------------------------------
(* State *)

GmIdle ==
  [pc |-> "idle", bitSize |-> 0, entropy |-> Nil, draws |-> 0,
   mnemonic |-> EmptyString, err |-> NoErr]

RunIdle ==
  [pc |-> "idle", seed |-> Nil, masterKey |-> Nil, child |-> Nil,
   key |-> Nil, kerr |-> NoErr, privateKey |-> Nil, publicKey |-> Nil,
   err |-> NoErr, calls |-> <<>>, encoded |-> <<>>, address |-> <<>>]

Call(fn, idx) == [fn |-> fn, idx |-> idx]

NoIdx == U32(0, 0)

Init ==
  /\ caller \in {"main", "api"}
  /\ gm = GmIdle
  /\ input = NoInput
  /\ run = [r \in Runs |-> RunIdle]

----------------------------------------------------------------------------
(* GenerateMnemonic *)

\* the call: the example program asks for 128 bits
CallGenerateMnemonic ==
  /\ gm.pc = "idle"
  /\ \E bitSize \in (IF caller = "main" THEN {128} ELSE BitSizes) :
       gm' = [gm EXCEPT !.pc = "entropy", !.bitSize = bitSize]
  /\ UNCHANGED <<caller, input, run>>

\* a variant that hands back a phrase together with the error
GenerateMnemonicEntropyKeepsPhrase ==
  /\ gm.pc = "entropy"
  /\ \E drawn \in Draws :
       LET res == NewEntropy(gm.bitSize, drawn)
       IN gm' = IF res.err # NoErr
                  THEN [gm EXCEPT !.pc = "done", !.draws = @ + res.draws,
                                  !.mnemonic = ValidPhrase(12, 0), !.err = res.err]
                  ELSE [gm EXCEPT !.pc = "mnemonic", !.draws = @ + res.draws,
                                  !.entropy = res.entropy]
  /\ UNCHANGED <<caller, input, run>>

\* entropy, err := bip39.NewEntropy(bitSize); if err != nil { return "", err }
GenerateMnemonicEntropy ==
  /\ gm.pc = "entropy"
  /\ \E drawn \in Draws :
       LET res == NewEntropy(gm.bitSize, drawn)
       IN gm' = IF res.err # NoErr
                  THEN [gm EXCEPT !.pc = "done", !.draws = @ + res.draws,
                                  !.mnemonic = EmptyString, !.err = res.err]
                  ELSE [gm EXCEPT !.pc = "mnemonic", !.draws = @ + res.draws,
                                  !.entropy = res.entropy]
  /\ UNCHANGED <<caller, input, run>>

\* mnemonic, err := bip39.NewMnemonic(entropy); if err != nil { return "", err }
\* return mnemonic, nil
GenerateMnemonicPhrase ==
  /\ gm.pc = "mnemonic"
  /\ LET res == NewMnemonic(gm.entropy[1])
     IN gm' = IF res.err # NoErr
                THEN [gm EXCEPT !.pc = "done", !.mnemonic = EmptyString,
                                !.err = res.err]
                ELSE [gm EXCEPT !.pc = "done", !.mnemonic = res.mnemonic,
                                !.err = NoErr]
  /\ UNCHANGED <<caller, input, run>>

----------------------------------------------------------------------------
(* The callers of GenerateKeysFromMnemonic *)

\* example/main.go: log.Fatal when GenerateMnemonic failed
MainFatal ==
  /\ caller = "main"
  /\ gm.pc = "done"
  /\ gm.err # NoErr
  /\ gm' = [gm EXCEPT !.pc = "fatal"]
  /\ UNCHANGED <<caller, input, run>>

\* example/main.go: GenerateKeysFromMnemonic(mnemonic, cointype.Tron, 0, 0, 0)
MainCallKeys ==
  /\ caller = "main"
  /\ gm.pc = "done"
  /\ gm.err = NoErr
  /\ run[1].pc = "idle"
  /\ input' = [mnemonic |-> gm.mnemonic, coin |-> U32(0, Tron),
               account |-> U32(0, 0), chain |-> U32(0, 0),
               address |-> U32(0, 0)]
  /\ run' = [run EXCEPT ![1].pc = "validate"]
  /\ gm' = [GmIdle EXCEPT !.pc = "returned"]
  /\ UNCHANGED caller

\* any other caller: any phrase (the generated one included) and any path
ApiCallKeys ==
  /\ caller = "api"
  /\ gm.pc = "done"
  /\ run[1].pc = "idle"
  /\ \E m \in Phrases \cup {gm.mnemonic}, coin \in CoinTypes,
        account \in Accounts, chain \in Chains, address \in Addresses :
       input' = [mnemonic |-> m, coin |-> coin, account |-> account,
                 chain |-> chain, address |-> address]
  /\ run' = [run EXCEPT ![1].pc = "validate"]
  /\ gm' = [GmIdle EXCEPT !.pc = "returned"]
  /\ UNCHANGED caller

\* the same call made a second time, after the first has ended
CallAgain ==
  /\ caller = "api"
  /\ run[1].pc \in {"done", "failed"}
  /\ run[2].pc = "idle"
  /\ run' = [run EXCEPT ![2].pc = "validate"]
  /\ UNCHANGED <<caller, gm, input>>

----------------------------------------------------------------------------
(* GenerateKeysFromMnemonic *)

\* a variant that calls the validator and ignores its answer
ValidateIgnoresResult(r) ==
  /\ run[r].pc = "validate"
  /\ run' = [run EXCEPT ![r] =
       [@ EXCEPT !.pc = "seed",
                 !.calls = Append(@, Call("IsMnemonicValid", NoIdx))]]
  /\ UNCHANGED <<caller, gm, input>>

\* if !bip39.IsMnemonicValid(mnemonic) { return nil, nil, fmt.Errorf(...) }
Validate(r) ==
  /\ run[r].pc = "validate"
  /\ run' = [run EXCEPT ![r] =
       IF ~IsMnemonicValid(input.mnemonic)
         THEN [@ EXCEPT !.pc = "ret", !.privateKey = Nil, !.publicKey = Nil,
                        !.err = "invalid mnemonic",
                        !.calls = Append(@, Call("IsMnemonicValid", NoIdx))]
         ELSE [@ EXCEPT !.pc = "seed",
                        !.calls = Append(@, Call("IsMnemonicValid", NoIdx))]]
  /\ UNCHANGED <<caller, gm, input>>

\* a variant that salts the seed with a passphrase drawn per call
SeedWithFreshSalt(r) ==
  /\ run[r].pc = "seed"
  /\ \E salt \in {<<>>, <<1>>} :
       run' = [run EXCEPT ![r] =
         [@ EXCEPT !.pc = "master",
                   !.seed = Some(NewSeed(input.mnemonic, salt)),
                   !.calls = Append(@, Call("NewSeed", NoIdx))]]
  /\ UNCHANGED <<caller, gm, input>>

\* seed := bip39.NewSeed(mnemonic, "")
Seed(r) ==
  /\ run[r].pc = "seed"
  /\ run' = [run EXCEPT ![r] =
       [@ EXCEPT !.pc = "master",
                 !.seed = Some(NewSeed(input.mnemonic, <<>>)),
                 !.calls = Append(@, Call("NewSeed", NoIdx))]]
  /\ UNCHANGED <<caller, gm, input>>

\* masterKey, err := bip32.NewMasterKey(seed); if err != nil { return nil, nil, err }
Master(r) ==
  /\ run[r].pc = "master"
  /\ LET res == NewMasterKey(run[r].seed[1])
     IN run' = [run EXCEPT ![r] =
          IF res.err # NoErr
            THEN [@ EXCEPT !.pc = "ret", !.privateKey = Nil, !.publicKey = Nil,
                           !.err = res.err,
                           !.calls = Append(@, Call("NewMasterKey", NoIdx))]
            ELSE [@ EXCEPT !.pc = "derive", !.masterKey = res.key,
                           !.calls = Append(@, Call("NewMasterKey", NoIdx))]]
  /\ UNCHANGED <<caller, gm, input>>

----------------------------------------------------------------------------
(* DeriveKeyFromPath *)

Levels == 1 .. 5

\* a variant that clears the top bit of chain and address
PathIndexMasked(level, coin, account, chain, address) ==
  CASE level = 1 -> Add32(Purpose, HardenedOffset)
    [] level = 2 -> Add32(coin, HardenedOffset)
    [] level = 3 -> Add32(account, HardenedOffset)
    [] level = 4 -> U32(0, chain.lo)
    [] level = 5 -> U32(0, address.lo)

\* the index DeriveKeyFromPath passes to NewChildKey at each level
PathIndex(level, coin, account, chain, address) ==
  CASE level = 1 -> Add32(Purpose, HardenedOffset)
    [] level = 2 -> Add32(coin, HardenedOffset)
    [] level = 3 -> Add32(account, HardenedOffset)
    [] level = 4 -> chain
    [] level = 5 -> address

\* the NewChildKey calls made so far in a run
ChildCalls(rn) == SelectSeq(rn.calls, LAMBDA c : c.fn = "NewChildKey")

\* a variant that, when a derivation fails, tries the next index once
DeriveRetriesNextIndex(r) ==
  /\ run[r].pc = "derive"
  /\ LET level == IF run[r].child = Nil THEN 1 ELSE run[r].child[1].Depth + 1
         parent == IF level = 1 THEN run[r].masterKey[1] ELSE run[r].child[1]
         idx == PathIndex(level, input.coin, input.account, input.chain,
                          input.address)
         first == NewChildKey(parent, idx)
         next == Add32(idx, U32(0, 1))
         res == IF first.err # NoErr THEN NewChildKey(parent, next) ELSE first
         made == IF first.err # NoErr
                   THEN <<Call("NewChildKey", idx), Call("NewChildKey", next)>>
                   ELSE <<Call("NewChildKey", idx)>>
     IN run' = [run EXCEPT ![r] =
          IF res.err # NoErr
            THEN [@ EXCEPT !.pc = "derived", !.child = Nil, !.key = Nil,
                           !.kerr = res.err, !.calls = @ \o made]
          ELSE IF level = 5
            THEN [@ EXCEPT !.pc = "derived", !.child = res.key,
                           !.key = res.key, !.kerr = NoErr,
                           !.calls = @ \o made]
          ELSE [@ EXCEPT !.child = res.key, !.calls = @ \o made]]
  /\ UNCHANGED <<caller, gm, input>>

\* a variant that drops a failed derivation and goes on from the last key
DeriveIgnoresError(r) ==
  /\ run[r].pc = "derive"
  /\ LET level == Len(ChildCalls(run[r])) + 1
         parent == IF run[r].child = Nil THEN run[r].masterKey[1]
                   ELSE run[r].child[1]
         idx == PathIndex(level, input.coin, input.account, input.chain,
                          input.address)
         res == NewChildKey(parent, idx)
         child == IF res.err # NoErr THEN run[r].child ELSE res.key
     IN run' = [run EXCEPT ![r] =
          IF level = 5
            THEN [@ EXCEPT !.pc = "derived", !.child = child, !.key = child,
                           !.kerr = NoErr,
                           !.calls = Append(@, Call("NewChildKey", idx))]
          ELSE [@ EXCEPT !.child = child,
                         !.calls = Append(@, Call("NewChildKey", idx))]]
  /\ UNCHANGED <<caller, gm, input>>

\* child, err = parent.NewChildKey(index); if err != nil { return nil, err };
\* after the fifth level: return child, nil
Derive(r) ==
  /\ run[r].pc = "derive"
  /\ LET level == Len(ChildCalls(run[r])) + 1
         parent == IF level = 1 THEN run[r].masterKey[1] ELSE run[r].child[1]
         idx == PathIndex(level, input.coin, input.account, input.chain,
                          input.address)
         res == NewChildKey(parent, idx)
     IN run' = [run EXCEPT ![r] =
          IF res.err # NoErr
            THEN [@ EXCEPT !.pc = "derived", !.child = Nil, !.key = Nil,
                           !.kerr = res.err,
                           !.calls = Append(@, Call("NewChildKey", idx))]
          ELSE IF level = 5
            THEN [@ EXCEPT !.pc = "derived", !.child = res.key,
                           !.key = res.key, !.kerr = NoErr,
                           !.calls = Append(@, Call("NewChildKey", idx))]
          ELSE [@ EXCEPT !.child = res.key,
                         !.calls = Append(@, Call("NewChildKey", idx))]]
  /\ UNCHANGED <<caller, gm, input>>

----------------------------------------------------------------------------
(* GenerateKeysFromMnemonic, continued *)

\* key, err := DeriveKeyFromPath(...); if err != nil { return nil, nil, err }
Derived(r) ==
  /\ run[r].pc = "derived"
  /\ run' = [run EXCEPT ![r] =
       IF run[r].kerr # NoErr
         THEN [@ EXCEPT !.pc = "ret", !.privateKey = Nil, !.publicKey = Nil,
                        !.err = run[r].kerr]
         ELSE [@ EXCEPT !.pc = "extract"]]
  /\ UNCHANGED <<caller, gm, input>>

\* privateKey := secp256k1.PrivKeyFromBytes(key.Key)
\* publicKey := privateKey.PubKey(); return privateKey, publicKey, nil
Extract(r) ==
  /\ run[r].pc = "extract"
  /\ LET privateKey == PrivKeyFromBytes(run[r].key[1].Key)
     IN run' = [run EXCEPT ![r] =
          [@ EXCEPT !.pc = "ret", !.privateKey = Some(privateKey),
                    !.publicKey = Some(PubKey(privateKey)), !.err = NoErr,
                    !.calls = Append(@, Call("PrivKeyFromBytes", NoIdx))]]
  /\ UNCHANGED <<caller, gm, input>>

\* the caller's check of the returned error
Returned(r) ==
  /\ run[r].pc = "ret"
  /\ run' = [run EXCEPT ![r].pc = IF run[r].err # NoErr THEN "failed" ELSE "tron"]
  /\ UNCHANGED <<caller, gm, input>>

----------------------------------------------------------------------------
(* GenerateTronAddress *)

\* pubKeyBytes := publicKey.SerializeUncompressed()[1:]
PubKeyBytes(publicKey) == Tail(SerializeUncompressed(publicKey))

\* a variant that keeps the first 20 bytes of the digest
AddressBytesLeading(hashBytes) == <<65>> \o SubSeq(hashBytes, 1, 20)

\* addressBytes := append([]byte{0x41}, hashBytes[len(hashBytes)-20:]...)
AddressBytes(hashBytes) ==
  <<65>> \o SubSeq(hashBytes, Len(hashBytes) - 20 + 1, Len(hashBytes))

\* addressWithChecksum := append(addressBytes, secondHash[:4]...)
AddressWithChecksum(addressBytes) ==
  LET firstHash == Sha256(addressBytes)
      secondHash == Sha256(firstHash)
  IN addressBytes \o SubSeq(secondHash, 1, 4)

GenerateTronAddress(r) ==
  /\ run[r].pc = "tron"
  /\ LET hashBytes == Keccak256(PubKeyBytes(run[r].publicKey[1]))
         encoded == AddressWithChecksum(AddressBytes(hashBytes))
     IN run' = [run EXCEPT ![r] =
          [@ EXCEPT !.pc = "done", !.encoded = encoded,
                    !.address = Base58Encode(encoded)]]
  /\ UNCHANGED <<caller, gm, input>>

----------------------------------------------------------------------------

Next ==
  \/ CallGenerateMnemonic
  \/ GenerateMnemonicEntropy
  \/ GenerateMnemonicPhrase
  \/ MainFatal
  \/ MainCallKeys
  \/ ApiCallKeys
  \/ CallAgain
  \/ \E r \in Runs : Validate(r)
  \/ \E r \in Runs : Seed(r)
  \/ \E r \in Runs : Master(r)
  \/ \E r \in Runs : Derive(r)
  \/ \E r \in Runs : Derived(r)
  \/ \E r \in Runs : Extract(r)
  \/ \E r \in Runs : Returned(r)
  \/ \E r \in Runs : GenerateTronAddress(r)

Spec == Init /\ [][Next]_vars

----------------------------------------------------------------------------
(* Vocabulary of the properties *)

\* DeriveKeyFromPath has returned in run r
DeriveReturned(r) ==
  /\ run[r].masterKey # Nil
  /\ run[r].pc \in {"derived", "extract", "ret", "failed", "tron", "done"}

\* GenerateKeysFromMnemonic has returned in run r
KeysReturned(r) == run[r].pc \in {"ret", "failed", "tron", "done"}

\* the run is over for its caller
Ended(r) == run[r].pc \in {"failed", "done"}

\* the result of deriving along the first n of the given indices, stopping at
\* the first failure; at is the level of the last derivation attempted
RECURSIVE ChainFrom(_, _, _)
ChainFrom(parent, idxs, n) ==
  IF n = 0 THEN [key |-> Some(parent), err |-> NoErr, at |-> 0]
  ELSE LET prev == ChainFrom(parent, idxs, n - 1)
       IN IF prev.err # NoErr THEN prev
          ELSE LET res == NewChildKey(prev.key[1], idxs[n])
               IN [key |-> res.key, err |-> res.err, at |-> n]

\* the path as the specification writes it: 44', coin', account', chain, address
SpecIndices ==
  <<Or31(Purpose), Or31(input.coin), Or31(input.account), input.chain,
    input.address>>

\* the path as DeriveKeyFromPath computes it
CodeIndices ==
  [k \in Levels |-> PathIndex(k, input.coin, input.account, input.chain,
                              input.address)]

----------------------------------------------------------------------------
(* C1: whenever the five derivations 44|2^31, coin|2^31, account|2^31,     *)
(* chain, address succeed from the master key, DeriveKeyFromPath returns   *)
(* exactly the key they produce.                                           *)
C1_FiveStepsAlongSpecPath ==
  \A r \in Runs :
    (DeriveReturned(r) /\ ChainFrom(run[r].masterKey[1], SpecIndices, 5).err = NoErr)
      => /\ run[r].kerr = NoErr
         /\ run[r].key = ChainFrom(run[r].masterKey[1], SpecIndices, 5).key

(* C2: every index passed to NewChildKey at the purpose, coin-type and     *)
(* account levels has the top bit set, whatever 32-bit coin and account    *)
(* the caller passed.                                                      *)
C2_UpperLevelsHardened ==
  \A r \in Runs :
    \A k \in 1 .. Len(ChildCalls(run[r])) :
      k <= 3 => IsHardened(ChildCalls(run[r])[k].idx)

(* C3, as claimed: a chain or address >= 2^31 makes DeriveKeyFromPath      *)
(* return InvalidPathParameter and no key, with no hardened derivation at  *)
(* levels 4 and 5.                                                         *)
C3_HardenedChainRejected ==
  \A r \in Runs :
    (IsHardened(input.chain) \/ IsHardened(input.address))
      => /\ \A k \in 1 .. Len(ChildCalls(run[r])) :
              k >= 4 => ~IsHardened(ChildCalls(run[r])[k].idx)
         /\ (DeriveReturned(r) /\ Len(ChildCalls(run[r])) >= 3)
              => (run[r].kerr = "InvalidPathParameter" /\ run[r].key = Nil)

(* C3, amended: DeriveKeyFromPath does not validate chain and address: it  *)
(* never reports InvalidPathParameter, the indices derived at levels 4 and *)
(* 5 are chain and address exactly as passed (hardened when >= 2^31), and  *)
(* it returns a key exactly when no derivation on that path fails.         *)
C3_ChainAddressPassedUnchecked ==
  \A r \in Runs :
    /\ run[r].kerr # "InvalidPathParameter"
    /\ run[r].err # "InvalidPathParameter"
    /\ \A k \in 1 .. Len(ChildCalls(run[r])) :
         /\ k = 4 => ChildCalls(run[r])[k].idx = input.chain
         /\ k = 5 => ChildCalls(run[r])[k].idx = input.address
    /\ DeriveReturned(r)
         => (run[r].key # Nil
               <=> ChainFrom(run[r].masterKey[1], CodeIndices, 5).err = NoErr)

\* a call that returned a key after deriving hardened at the chain level
C3_Witness ==
  \E r \in Runs :
    /\ run[r].pc = "done"
    /\ IsHardened(input.chain)
    /\ IsHardened(ChildCalls(run[r])[4].idx)
    /\ run[r].privateKey # Nil

(* C4: when the derivation at level k fails, DeriveKeyFromPath returns     *)
(* that error and a nil key having called NewChildKey exactly k times, one *)
(* call per level with the path's index; and GenerateKeysFromMnemonic      *)
(* returns nil keys with the error of a failed master-key creation or      *)
(* derivation, a key being non-nil exactly when the error is nil.          *)
C4_ErrorsPropagate ==
  \A r \in Runs :
    /\ DeriveReturned(r) =>
         LET ref == ChainFrom(run[r].masterKey[1], CodeIndices, 5)
         IN /\ run[r].kerr = ref.err
            /\ run[r].key = ref.key
            /\ (ref.err # NoErr => run[r].key = Nil)
            /\ Len(ChildCalls(run[r])) = ref.at
            /\ \A k \in 1 .. ref.at : ChildCalls(run[r])[k].idx = CodeIndices[k]
    /\ KeysReturned(r) =>
         /\ (run[r].privateKey # Nil) <=> (run[r].err = NoErr)
         /\ (run[r].publicKey # Nil) <=> (run[r].err = NoErr)
         /\ (run[r].seed # Nil /\ NewMasterKey(run[r].seed[1]).err # NoErr)
              => /\ run[r].err = NewMasterKey(run[r].seed[1]).err
                 /\ ChildCalls(run[r]) = <<>>
         /\ run[r].kerr # NoErr => run[r].err = run[r].kerr

\* a call that failed at the coin-type level and went no further
C4_Witness ==
  \E r \in Runs :
    /\ run[r].pc = "failed"
    /\ run[r].kerr = "InvalidChildKey"
    /\ Len(ChildCalls(run[r])) = 2
    /\ run[r].privateKey = Nil

(* C5: validation comes first, and a phrase that fails it ends the call    *)
(* with an error and nil keys before any seed, master key or child key is  *)
(* computed.                                                               *)
C5_InvalidMnemonicStopsFirst ==
  \A r \in Runs :
    /\ run[r].calls # <<>> => run[r].calls[1].fn = "IsMnemonicValid"
    /\ (run[r].pc \notin {"idle", "validate"} /\ ~IsMnemonicValid(input.mnemonic))
         => /\ KeysReturned(r)
            /\ run[r].err # NoErr
            /\ run[r].privateKey = Nil
            /\ run[r].publicKey = Nil
            /\ run[r].calls = <<Call("IsMnemonicValid", NoIdx)>>
            /\ run[r].seed = Nil
            /\ run[r].masterKey = Nil
            /\ run[r].child = Nil

\* a call with a wrong-checksum phrase has been turned down
C5_Witness ==
  \E r \in Runs :
    /\ run[r].pc = "failed"
    /\ input.mnemonic.known
    /\ input.mnemonic.words = 12
    /\ ~IsMnemonicValid(input.mnemonic)

(* C6: the byte string handed to Base58 is 25 bytes long: 0x41, then the   *)
(* last 20 bytes of the Keccak-256 digest of the 64 coordinate bytes of    *)
(* the uncompressed key, then the first 4 bytes of the double SHA-256 of   *)
(* its own first 21 bytes.                                                 *)
C6_TronPayloadLayout ==
  \A r \in Runs :
    run[r].pc = "done" =>
      LET uncompressed == SerializeUncompressed(run[r].publicKey[1])
          coordinates == [i \in 1 .. 64 |-> uncompressed[i + 1]]
          digest == Keccak256(coordinates)
          payload == run[r].encoded
          leading == [i \in 1 .. 21 |-> payload[i]]
      IN /\ Len(uncompressed) = 65
         /\ Len(payload) = 25
         /\ payload[1] = 65
         /\ \A i \in 1 .. 20 : payload[1 + i] = digest[12 + i]
         /\ \A i \in 1 .. 4 : payload[21 + i] = Sha256(Sha256(leading))[i]
         /\ run[r].address = Base58Encode(payload)

\* an address has been produced
C6_Witness ==
  \E r \in Runs :
    /\ run[r].pc = "done"
    /\ Len(run[r].encoded) = 25
    /\ Len(run[r].address) > 0

C8_GenerateMnemonicContract ==
  gm.pc \in {"done", "fatal"} =>
    /\ gm.err = NoErr => (gm.bitSize \in EntropySizes /\ gm.mnemonic # EmptyString)
    /\ gm.bitSize \notin EntropySizes => gm.err = "InvalidEntropySize"
    /\ gm.err # NoErr => gm.mnemonic = EmptyString
    /\ gm.err \in {NoErr, "InvalidEntropySize", "EntropySourceError"}
    /\ gm.draws <= 1
    /\ gm.err = "EntropySourceError" => gm.draws = 1

\* a call with a size that is a multiple of 16 but not of 32 has failed
C8_Witness ==
  /\ gm.pc = "done"
  /\ gm.bitSize = 144
  /\ gm.err = "InvalidEntropySize"
  /\ gm.mnemonic = EmptyString

C10_ExampleDerivesTronPath ==
  (caller = "main" /\ run[1].pc # "idle") =>
    /\ Tron = 195
    /\ input.coin = U32(0, 195)
    /\ LET path == <<U32(1, 44), U32(1, 195), U32(1, 0), U32(0, 0), U32(0, 0)>>
       IN \A k \in 1 .. Len(ChildCalls(run[1])) : ChildCalls(run[1])[k].idx = path[k]

----------------------------------------------------------------------------
(* Key-pair extraction on its own: the last step of                        *)
(* GenerateKeysFromMnemonic applied to every 32-byte key.                  *)

InitExtract ==
  /\ caller = "api"
  /\ gm = [GmIdle EXCEPT !.pc = "returned"]
  /\ input \in {[NoInput EXCEPT !.mnemonic = ValidPhrase(12, e)] : e \in 0 .. MaxEntropy}
  /\ \E k \in Scalars, c \in Scalars :
       LET derived == Some([Key |-> k, ChainCode |-> c, Depth |-> 5,
                            ChildNumber |-> U32(0, 0)])
       IN run = [r \in Runs |->
                   IF r = 1
                     THEN [RunIdle EXCEPT !.pc = "extract", !.key = derived]
                     ELSE RunIdle]

NextExtract ==
  \/ \E r \in Runs : Extract(r)
  \/ \E r \in Runs : Returned(r)
  \/ \E r \in Runs : GenerateTronAddress(r)

SpecExtract == InitExtract /\ [][NextExtract]_vars

----------------------------------------------------------------------------
(* DeriveKeyFromPath on its own: the exported function applied to a        *)
(* starting key of any depth, shallow or within DeepRange of the maximum.  *)

MaxDepth == 255

StartDepths == {0, 1} \cup ((MaxDepth - DeepRange) .. MaxDepth)

InitDeep ==
  /\ caller = "api"
  /\ gm = [GmIdle EXCEPT !.pc = "returned"]
  /\ \E coin \in CoinTypes : input = [NoInput EXCEPT !.coin = coin]
  /\ \E k \in 1 .. (CurveOrder - 1), c \in Scalars, depth \in StartDepths :
       LET masterKey == Some([Key |-> k, ChainCode |-> c, Depth |-> depth,
                              ChildNumber |-> U32(0, 0)])
       IN run = [r \in Runs |->
                   IF r = 1
                     THEN [RunIdle EXCEPT !.pc = "derive", !.masterKey = masterKey]
                     ELSE RunIdle]

NextDeep == \E r \in Runs : Derive(r)

SpecDeep == InitDeep /\ [][NextDeep]_vars

\* the depth of the key DeriveKeyFromPath started from in run r
StartDepth(r) == run[r].masterKey[1].Depth

\* the number of the step whose parent has depth 255
LastStep(r) == MaxDepth + 1 - StartDepth(r)

====
